---- MODULE Spec2Model ----
(***************************************************************************)
(* DCSBiosPi: the DCS-BIOS packet framer (dcsb_parser.py), the UDP <->     *)
(* serial bridge (udp_serial_bridge.py) and the multicast -> PTY bridge    *)
(* (multicast_to_pty.py) as state machines.                                *)
(*                                                                         *)
(* Bytes are integers; byte strings are sequences of bytes.  Offsets into  *)
(* byte strings are 0-based as in the Python source; -1 is "not found".    *)
(***************************************************************************)
EXTENDS Integers, Sequences, FiniteSets, TLC

(***************************************************************************)
(* Bounds of the model.                                                    *)
(***************************************************************************)
\* total number of bytes fed to a framer over one behaviour
MaxInput == 12
\* longest chunk handed to one feed call (apart from the scenario chunks)
MaxChunk == 4
\* longest payload P of a scenario chunk marker + P + marker
MaxPayload == 3
\* total number of bytes the bridge receives in datagrams over one behaviour
MaxUdpBytes == 12
\* number of datagrams multicast_to_pty receives over one behaviour
MaxPtyDatagrams == 3
\* the bytes passed to DcsBios.parse_packet, over all its calls
MaxParseBytes == 3
\* the handlers registered with a DcsBios
MaxHandlers == 2
\* the characters of a command passed to DcsBios.format_command
MaxCmd == 3

\* the longest command given to schedule_periodic (in characters)
MaxSchedCmd == 1
\* the calls of send_func by the worker of a periodic schedule
MaxSends == 3
\* the calls of the cancel() of a periodic schedule
MaxCancels == 2
\* the outputs of the mapping file of a GPIOBridge
MaxOutputs == 2
\* the bytes of a line a GPIOBridge reads, before its line break
MaxLineBody == 2

(***************************************************************************)
(* Byte values.                                                            *)
(***************************************************************************)
\* the byte 0x55 of which the header is made
SyncByte == 85
\* a byte that is not part of the header ("A"; any other value but 0x55
\* does as well)
OtherByte == 65

Bytes == {SyncByte, OtherByte}

\* HEADER = b"\x55\x55\x55\x55"
HEADER == <<SyncByte, SyncByte, SyncByte, SyncByte>>

\* all byte strings of length lo..hi
ByteStrings(lo, hi) == UNION {[1..n -> Bytes] : n \in lo..hi}

(***************************************************************************)
(* bytes / bytearray primitives used by the framer.                        *)
(***************************************************************************)
\* buf[from:]  (from is a 0-based offset, 0 <= from)
DropFirst(buf, from) == SubSeq(buf, from + 1, Len(buf))

\* buf[a:b]    (0 <= a <= b <= len(buf))
Slice(buf, a, b) == SubSeq(buf, a + 1, b)

\* buf[i:i+4] == HEADER
HeaderAt(buf, i) == /\ i >= 0
                    /\ i + Len(HEADER) <= Len(buf)
                    /\ Slice(buf, i, i + Len(HEADER)) = HEADER

\* bytearray.find(HEADER, from): the lowest offset >= from at which HEADER
\* occurs in buf, -1 when there is none
Find(buf, from) ==
  LET hits == {i \in from..(Len(buf) - Len(HEADER)) : HeaderAt(buf, i)}
  IN  IF hits = {} THEN -1
      ELSE CHOOSE i \in hits : \A j \in hits : i <= j

(***************************************************************************)
(* DcsbiosFramer.feed                                                      *)
(***************************************************************************)
\* variants of KeepTail with a slip: the buffer is cleared; only 2 bytes are
\* kept; nothing is trimmed
KeepTailDropAll(buf) == <<>>

KeepTailTwo(buf) == IF Len(buf) > 2 THEN DropFirst(buf, Len(buf) - 2) ELSE buf

KeepTailNoTrim(buf) == buf

\* lines 23-24: no header in the buffer: keep its last 3 bytes only
KeepTail(buf) == IF Len(buf) > 3 THEN DropFirst(buf, Len(buf) - 3) ELSE buf

\* variant of Packet with a slip: the packet starts after the header
PacketNoHeader(buf, start, next_h) == Slice(buf, start + Len(HEADER), next_h)

\* line 32: packet = bytes(self.buf[start:next_h])
Packet(buf, start, next_h) == Slice(buf, start, next_h)

\* variant of AfterEmit with a slip: the closing marker is deleted along
\* with the packet
AfterEmitDropHeader(buf, next_h) == DropFirst(buf, next_h + Len(HEADER))

\* line 38: del self.buf[:next_h]
AfterEmit(buf, next_h) == DropFirst(buf, next_h)

\* variant of NextFrom with a slip: the search for the next marker starts
\* one byte late
NextFromLate(start) == start + Len(HEADER) + 1

\* line 29: the next marker is searched from start + len(HEADER) on
NextFrom(start) == start + Len(HEADER)

\* the while True loop of feed: the buffer it leaves and the packets it
\* passes to on_packet, in order (out is the packets passed so far)
RECURSIVE FeedLoop(_, _)
FeedLoop(buf, out) ==
  LET start == Find(buf, 0)
  IN  IF start = -1
      THEN [buf |-> KeepTail(buf), out |-> out]
      ELSE LET b1     == IF start > 0 THEN DropFirst(buf, start) ELSE buf
               next_h == Find(b1, NextFrom(0))
           IN  IF next_h = -1
               THEN [buf |-> b1, out |-> out]
               ELSE FeedLoop(AfterEmit(b1, next_h),
                             Append(out, Packet(b1, 0, next_h)))

\* variant of Feed with a slip: the buffer is not kept from call to call
FeedFresh(buf, data) == FeedLoop(data, <<>>)

\* feed(data) on a framer whose buffer is buf
Feed(buf, data) ==
  IF data = <<>>
  THEN [buf |-> buf, out |-> <<>>]
  ELSE FeedLoop(buf \o data, <<>>)

(***************************************************************************)
(* DcsbiosFramer.feed with an on_packet that may raise: fails is the set   *)
(* of the calls of on_packet, numbered from 1 within this feed call, that  *)
(* raise.  flags tells for each packet passed whether the call raised, and *)
(* error whether the exception left feed.                                  *)
(***************************************************************************)
RECURSIVE FeedLoopRaising(_, _, _, _)

\* variant of CallbackRaised with a slip: no try around on_packet, so the
\* exception leaves feed before del self.buf[:next_h]
CallbackRaisedPropagates(buf, next_h, out, flags, fails) ==
  [buf |-> buf, out |-> out, flags |-> flags, error |-> TRUE]

\* lines 34-38: on_packet has raised: the exception is caught and printed,
\* the packet is deleted from the buffer and the loop goes on
CallbackRaised(buf, next_h, out, flags, fails) ==
  FeedLoopRaising(AfterEmit(buf, next_h), out, flags, fails)

\* lines 20-38: the while True loop of feed
FeedLoopRaising(buf, out, flags, fails) ==
  LET start == Find(buf, 0)
  IN  IF start = -1
      THEN [buf |-> KeepTail(buf), out |-> out, flags |-> flags,
            error |-> FALSE]
      ELSE LET b1     == IF start > 0 THEN DropFirst(buf, start) ELSE buf
               next_h == Find(b1, NextFrom(0))
               out2   == Append(out, Packet(b1, 0, next_h))
           IN  IF next_h = -1
               THEN [buf |-> b1, out |-> out, flags |-> flags,
                     error |-> FALSE]
               ELSE IF (Len(flags) + 1) \in fails
                    THEN CallbackRaised(b1, next_h, out2,
                                        Append(flags, TRUE), fails)
                    ELSE FeedLoopRaising(AfterEmit(b1, next_h), out2,
                                         Append(flags, FALSE), fails)

\* lines 16-38: feed(data) on a framer whose buffer is buf
FeedRaising(buf, data, fails) ==
  IF data = <<>>
  THEN [buf |-> buf, out |-> <<>>, flags |-> <<>>, error |-> FALSE]
  ELSE FeedLoopRaising(buf \o data, <<>>, <<>>, fails)

(***************************************************************************)
(* DcsBios (dcsbios.py): the message parser.  Text is a sequence of        *)
(* character codes.  A DcsMessage is a record of name, value, raw and      *)
(* timestamp; the timestamp is a logical clock, the number of messages     *)
(* the parser had built before this one.                                   *)
(***************************************************************************)
\* the characters of the parser's input: a letter, ':', a line break, a
\* blank, and a byte that is not valid in UTF-8
Colon == 58

Newline == 10

Space == 32

BadByte == 255

Chars == {OtherByte, Colon, Newline, Space, BadByte}

CharStrings(lo, hi) == UNION {[1..n -> Chars] : n \in lo..hi}

\* line 56: data.decode("utf-8", errors="ignore") drops the bytes that are
\* not valid UTF-8
Decode(data) == SelectSeq(data, LAMBDA b : b # BadByte)

\* the 1-based position of the first c in s, 0 if there is none
RECURSIVE FirstAt(_, _, _)
FirstAt(s, c, i) ==
  IF i > Len(s) THEN 0
  ELSE IF s[i] = c THEN i
  ELSE FirstAt(s, c, i + 1)

\* the 1-based position of the last c in s, 0 if there is none (used by the
\* variant SplitAtLast only)
RECURSIVE LastAt(_, _, _)
LastAt(s, c, i) ==
  IF i < 1 THEN 0
  ELSE IF s[i] = c THEN i
  ELSE LastAt(s, c, i - 1)

\* line 60: text.splitlines(): the pieces between line breaks; a line break
\* at the very end does not open a further, empty line
RECURSIVE SplitLines(_)
SplitLines(text) ==
  IF text = <<>> THEN <<>>
  ELSE LET k == FirstAt(text, Newline, 1)
       IN  IF k = 0 THEN <<text>>
           ELSE <<SubSeq(text, 1, k - 1)>>
                \o SplitLines(SubSeq(text, k + 1, Len(text)))

\* line 61: line.strip() removes the blanks at both ends
RECURSIVE Strip(_)
Strip(line) ==
  IF line = <<>> THEN <<>>
  ELSE IF Head(line) = Space THEN Strip(Tail(line))
  ELSE IF line[Len(line)] = Space THEN Strip(SubSeq(line, 1, Len(line) - 1))
  ELSE line

\* variant of SkipLine with a slip: an empty line is not skipped
SkipLineNever(line) == FALSE

\* lines 62-63: if not line: continue
SkipLine(line) == line = <<>>

\* variant of SplitAt with a slip: the line is split on its last colon
SplitAtLast(line) == LastAt(line, Colon, Len(line))

\* lines 66-67: line.split(":", 1) splits at the first colon (0: no colon)
SplitAt(line) == FirstAt(line, Colon, 1)

\* lines 64-70: the DcsMessage of a stripped line, built at time now
Message(line, now) ==
  LET k == SplitAt(line)
  IN  [name      |-> IF k = 0 THEN line ELSE SubSeq(line, 1, k - 1),
       value     |-> IF k = 0 THEN <<>> ELSE SubSeq(line, k + 1, Len(line)),
       raw       |-> line,
       timestamp |-> now]

\* variant of Store with a slip: a name already in the cache keeps its
\* message
StoreFirst(cache, msg) ==
  IF msg.name \in DOMAIN cache THEN cache
  ELSE [n \in DOMAIN cache \cup {msg.name} |->
          IF n = msg.name THEN msg ELSE cache[n]]

\* line 71: self.last_messages[name] = msg
Store(cache, msg) ==
  [n \in DOMAIN cache \cup {msg.name} |->
     IF n = msg.name THEN msg ELSE cache[n]]

\* variant of Search with a slip: the pattern must match the whole name
SearchFullMatch(pat, name) == pat = name

\* line 75: pat.search(name), for a pattern without metacharacters: the
\* pattern occurs somewhere in the name
Search(pat, name) ==
  \E o \in 0..(Len(name) - Len(pat)) : SubSeq(name, o + 1, o + Len(pat)) = pat

\* variant of HandlerRaised with a slip: no try around cb(msg)
HandlerRaisedPropagates == "raise"

\* lines 78-80: except Exception: pass
HandlerRaised == "pass"

\* lines 74-80: the dispatch of msg to the handlers from the i-th on;
\* faulty is the set of the handlers that raise when called.  log gets one
\* entry per call of a callback; seen is self.last_messages as the callback
\* finds it.
RECURSIVE Dispatch(_, _, _, _, _, _)
Dispatch(hs, i, msg, faulty, log, seen) ==
  IF i > Len(hs) THEN [log |-> log, error |-> FALSE]
  ELSE IF ~Search(hs[i], msg.name)
       THEN Dispatch(hs, i + 1, msg, faulty, log, seen)
  ELSE LET log2 == Append(log, [handler |-> i, msg |-> msg,
                                raised |-> i \in faulty, cache |-> seen])
       IN  IF i \in faulty /\ HandlerRaised = "raise"
           THEN [log |-> log2, error |-> TRUE]
           ELSE Dispatch(hs, i + 1, msg, faulty, log2, seen)

\* variant of CacheAtDispatch with a slip: the cache is updated after the
\* dispatch of the message
CacheAtDispatchStale(cache, msg) == cache

\* lines 71-74: self.last_messages[name] = msg comes before the dispatch
\* loop
CacheAtDispatch(cache, msg) == Store(cache, msg)

\* lines 60-81: the loop of parse_packet over the lines from the i-th on
RECURSIVE ParseLines(_, _, _, _, _, _, _, _)
ParseLines(lines, i, hs, faulty, cache, now, msgs, log) ==
  IF i > Len(lines)
  THEN [cache |-> cache, messages |-> msgs, log |-> log, now |-> now,
        error |-> FALSE]
  ELSE LET line == Strip(lines[i])
       IN  IF SkipLine(line)
           THEN ParseLines(lines, i + 1, hs, faulty, cache, now, msgs, log)
           ELSE LET msg == Message(line, now)
                    c2  == Store(cache, msg)
                    d   == Dispatch(hs, 1, msg, faulty, log,
                                    CacheAtDispatch(cache, msg))
                IN  IF d.error
                    THEN [cache |-> c2, messages |-> Append(msgs, msg),
                          log |-> d.log, now |-> now + 1, error |-> TRUE]
                    ELSE ParseLines(lines, i + 1, hs, faulty, c2, now + 1,
                                    Append(msgs, msg), d.log)

\* lines 49-81: parse_packet(data) with the handlers hs and the cache
ParsePacketResult(data, hs, faulty, cache, now) ==
  ParseLines(SplitLines(Decode(data)), 1, hs, faulty, cache, now, <<>>, <<>>)

(***************************************************************************)
(* DcsBios (dcsbios.py): the command formatter.  A command is a text over  *)
(* a letter, the line break and one character outside ASCII, which UTF-8   *)
(* encodes in two bytes.                                                   *)
(***************************************************************************)
\* U+00E9 and the two bytes UTF-8 encodes it in
NonAscii == 233

Utf8Lead == 195

Utf8Trail == 169

CmdChars == {OtherByte, Newline, NonAscii}

Commands == UNION {[1..n -> CmdChars] : n \in 0..MaxCmd}

\* line 91: cmd.encode("utf-8")
RECURSIVE Encode(_)
Encode(text) ==
  IF text = <<>> THEN <<>>
  ELSE (IF Head(text) = NonAscii THEN <<Utf8Lead, Utf8Trail>>
        ELSE <<Head(text)>>) \o Encode(Tail(text))

\* line 89: cmd.endswith("\n")
EndsWithNewline(s) == s # <<>> /\ s[Len(s)] = Newline

\* variant of Terminated with a slip: the terminator is appended to every
\* command
TerminatedAlways(cmd) == cmd \o <<Newline>>

\* lines 89-90: if not cmd.endswith("\n"): cmd = cmd + "\n"
Terminated(cmd) == IF ~EndsWithNewline(cmd) THEN cmd \o <<Newline>> ELSE cmd

\* lines 83-91: format_command(cmd)
FormatCommand(cmd) == Encode(Terminated(cmd))

(***************************************************************************)
(* State.                                                                  *)
(***************************************************************************)
VARIABLES
  prog,         \* which program runs: "framer" (a DcsbiosFramer on its own),
                \* "bridge" (udp_serial_bridge.py) or "pty" (multicast_to_pty.py)
  fbuf,         \* DcsbiosFramer.buf
  finput,       \* concatenation of all data fed to the framer so far
  fframes,      \* the packets passed to on_packet so far, in order
  flast,        \* the data of the latest feed call
  fraised,      \* for each packet passed to on_packet: the call raised
  ferror,       \* an exception has left a feed call
  cfgSerial,    \* UDPSerialBridge.serial_port is set (--serial given)
  cfgMapping,   \* a mapping file with input commands is given and gpiozero
                \* can be imported
  sock,         \* UDPSerialBridge.sock: "none", "open" or "closed"
  serial,       \* UDPSerialBridge.serial: "none", "open" or "closed"
  running,      \* UDPSerialBridge.running
  buttons,      \* the Button callbacks of _setup_gpio_callbacks are installed
  main_pc,      \* where UDPSerialBridge.run is
  udp_pc,       \* where the _udp_reader thread is
  upending,     \* packets framed by the current feed call whose on_packet
                \* call has not returned yet, oldest first
  serialOut,    \* the packets on_packet has written to the serial port
  uWriteFailed, \* a serial write of on_packet has raised
  ser_pc,       \* where the _serial_reader thread is
  gpio_pc,      \* where the send_command call of a button callback is
  gb,           \* the bytes b of that call (empty while there is none)
  gfailed,      \* the serial write of that call has raised
  pty_pc,       \* where main of multicast_to_pty.py is
  pty_rc,       \* its return code (-1 while it has not returned)
  ptyIn,        \* number of non-empty datagrams it has received
  ptyOut,       \* number of datagrams it has written to the PTY master
  handlers,     \* DcsBios.handlers: the patterns, in registration order
  last_messages,\* DcsBios.last_messages: name -> DcsMessage
  pdata,        \* the data of the latest parse_packet call
  messages,     \* the list the latest parse_packet call returned
  plog,         \* the calls of callbacks during the latest parse_packet
  perror,       \* an exception has left the latest parse_packet call
  phistory,     \* every DcsMessage built so far, in order
  pfed,         \* the number of bytes passed to parse_packet so far
  fmt_cmd,      \* the cmd of the latest format_command call
  fmt_out,      \* the bytes it returned (empty before the first call)
  sch_pc,       \* where the worker thread of schedule_periodic is
  sch_cmd,      \* the command of the schedule
  stop_event,   \* the worker's stop_event is set
  sch_sent,     \* the calls of send_func: the payload, and whether it returned
  elapsed,      \* the number of waits of the worker that have timed out
  cancel_at,    \* the value of elapsed when cancel() was first called
  cancels,      \* the number of calls of cancel()
  at_cancel,    \* where the worker was, and how many sends it had begun,
                \* when cancel() was first called
  scheduler_stop, \* self._scheduler_stop is set
  gc_outputs,   \* GPIOBridge: the outputs of the mapping file, in order
  gc_pc,        \* where GPIOBridge.run is
  gc_rd,        \* where the _serial_reader thread of the GPIOBridge is
  gc_text,      \* the text of the line it has read last
  gc_leds       \* the level of the LED of each output

fvars == <<fbuf, finput, fframes, flast, fraised, ferror>>

cvars == <<prog, cfgSerial, cfgMapping>>

\* of a bridge: the send_command call of a button callback
gvars == <<gpio_pc, gb, gfailed>>

bvars == <<sock, serial, running, buttons, main_pc, udp_pc, upending,
           serialOut, uWriteFailed, ser_pc, gvars>>

pvars == <<pty_pc, pty_rc, ptyIn, ptyOut>>

\* of a DcsBios: the parser's variables, and the formatter's
psvars == <<handlers, last_messages, pdata, messages, plog, perror, phistory,
            pfed>>

fmvars == <<fmt_cmd, fmt_out>>

scvars == <<sch_pc, sch_cmd, stop_event, sch_sent, elapsed, cancel_at,
            cancels, at_cancel, scheduler_stop>>

dvars == <<psvars, fmvars, scvars>>

\* of a GPIOBridge
lvars == <<gc_outputs, gc_pc, gc_rd, gc_text, gc_leds>>

vars == <<prog, fbuf, finput, fframes, flast, fraised, ferror, cfgSerial, cfgMapping, sock,
          serial, running, buttons, main_pc, udp_pc, upending, serialOut,
          uWriteFailed, ser_pc, gpio_pc, gb, gfailed, pty_pc, pty_rc, ptyIn,
          ptyOut,
          handlers, last_messages, pdata, messages, plog, perror, phistory,
          pfed, fmt_cmd, fmt_out, sch_pc, sch_cmd, stop_event, sch_sent,
          elapsed, cancel_at, cancels, at_cancel, scheduler_stop, gc_outputs, gc_pc, gc_rd, gc_text,
          gc_leds>>

\* the state of a framer right after DcsbiosFramer.__init__
FreshFramer ==
  /\ fbuf = <<>>
  /\ finput = <<>>
  /\ fframes = <<>>
  /\ flast = <<>>
  /\ fraised = <<>>
  /\ ferror = FALSE

\* the state of a bridge right after UDPSerialBridge.__init__
FreshBridge ==
  /\ sock = "none"
  /\ serial = "none"
  /\ running = FALSE
  /\ buttons = FALSE
  /\ main_pc = "start"
  /\ udp_pc = "off"
  /\ upending = <<>>
  /\ serialOut = <<>>
  /\ uWriteFailed = FALSE
  /\ ser_pc = "off"
  /\ gpio_pc = "idle"
  /\ gb = <<>>
  /\ gfailed = FALSE

\* a GPIOBridge right after GPIOBridge.__init__ with the outputs outs in
\* its mapping file; gpiozero makes an LED off
FreshGpioBridge(outs) ==
  /\ gc_outputs = outs
  /\ gc_pc = "start"
  /\ gc_rd = "off"
  /\ gc_text = <<>>
  /\ gc_leds = [i \in 1..Len(outs) |-> "off"]

\* multicast_to_pty.py before main is entered
FreshPty ==
  /\ pty_pc = "start"
  /\ pty_rc = -1
  /\ ptyIn = 0
  /\ ptyOut = 0

\* the state of a DcsBios right after DcsBios.__init__
FreshDcs ==
  /\ handlers = <<>>
  /\ last_messages = [n \in {} |-> n]
  /\ pdata = <<>>
  /\ messages = <<>>
  /\ plog = <<>>
  /\ perror = FALSE
  /\ phistory = <<>>
  /\ pfed = 0
  /\ fmt_cmd = <<>>
  /\ fmt_out = <<>>
  /\ sch_pc = "none"
  /\ sch_cmd = <<>>
  /\ stop_event = FALSE
  /\ sch_sent = <<>>
  /\ elapsed = 0
  /\ cancel_at = 0
  /\ cancels = 0
  /\ at_cancel = [pc |-> "none", sent |-> 0]
  /\ scheduler_stop = FALSE

(***************************************************************************)
(* A framer on its own, fed arbitrary chunks.                              *)
(***************************************************************************)
\* the chunks of the scenario marker + P + marker
ScenarioChunks == {HEADER \o p \o HEADER : p \in ByteStrings(0, MaxPayload)}

Chunks == ByteStrings(0, MaxChunk) \cup ScenarioChunks

\* DcsbiosFramer.__init__
FramerInit ==
  /\ prog = "framer"
  /\ cfgSerial = FALSE
  /\ cfgMapping = FALSE
  /\ FreshFramer
  /\ FreshBridge
  /\ FreshPty
  /\ FreshDcs
  /\ FreshGpioBridge(<<>>)

\* one call framer.feed(data)
FramerFeed(data) ==
  /\ prog = "framer"
  /\ Len(finput) + Len(data) <= MaxInput
  /\ \E fails \in SUBSET (1..Len(Feed(fbuf, data).out)) :
       LET r == FeedRaising(fbuf, data, fails)
       IN  /\ fbuf' = r.buf
           /\ fframes' = fframes \o r.out
           /\ fraised' = fraised \o r.flags
           /\ ferror' = (ferror \/ r.error)
  /\ finput' = finput \o data
  /\ flast' = data
  /\ UNCHANGED <<cvars, lvars, bvars, pvars, dvars>>

FramerNext == \E data \in Chunks : FramerFeed(data)

FramerSpec == FramerInit /\ [][FramerNext]_vars

(***************************************************************************)
(* UDPSerialBridge (udp_serial_bridge.py).                                 *)
(*                                                                         *)
(* run() is the main thread; _udp_reader and _serial_reader are daemon     *)
(* threads; a gpiozero Button runs its callback (send_command) on a thread *)
(* of its own.  A call that blocks (recvfrom, readline, write, sendto) is  *)
(* a position of its thread, and its return or its exception is a step.    *)
(* The bridge's framer is the one of _udp_reader; it is private to that    *)
(* thread, so feed computes its packets in one step and the on_packet      *)
(* calls it makes are stepped through one at a time (upending).            *)
(***************************************************************************)
\* the datagrams the bridge receives
Datagrams == {<<>>, <<OtherByte>>, <<SyncByte, SyncByte>>, HEADER}

\* if self.serial: / while ... and self.serial  (a Serial object is truthy,
\* open or closed)
SerialSet == serial # "none"

\* the steps of run() that can raise before the threads are started
SetupSteps == {"udp", "mapping", "serial"}

\* run(), lines 149-162, when no setup step raises: the socket is bound and
\* joined, the mapping loaded, the serial port opened, the callbacks
\* installed, running set and the reader threads started
Run ==
  /\ prog = "bridge"
  /\ main_pc = "start"
  /\ sock' = "open"
  /\ serial' = IF cfgSerial THEN "open" ELSE "none"
  /\ buttons' = cfgMapping
  /\ running' = TRUE
  /\ udp_pc' = "top"
  /\ ser_pc' = IF cfgSerial THEN "top" ELSE "off"
  /\ main_pc' = "sleep"
  /\ UNCHANGED <<cvars, lvars, dvars, fvars, pvars, upending, serialOut, uWriteFailed,
                 gvars>>

\* variant of RunningAtSetup with a slip: self.running = True is the first
\* statement of run()
RunningAtSetupSet == TRUE

\* lines 35, 149-154: self.running is False from __init__ until line 154,
\* after the setup steps
RunningAtSetup == FALSE

\* run(), lines 149-151, when _setup_udp, _load_mapping or _setup_serial
\* raises: the exception leaves run(), nothing after it is executed
RunSetupFails(step) ==
  /\ prog = "bridge"
  /\ main_pc = "start"
  /\ step = "mapping" => cfgMapping
  /\ step = "serial" => cfgSerial
  /\ sock' = IF step = "udp" THEN "none" ELSE "open"
  /\ running' = RunningAtSetup
  /\ main_pc' = "failed"
  /\ UNCHANGED <<cvars, lvars, dvars, fvars, pvars, serial, buttons, udp_pc,
                 upending, serialOut, uWriteFailed, ser_pc, gvars>>

\* lines 177-187: main() calls bridge.run(); an exception that leaves run()
\* ends the process with status 1, a return of run() with status 0 (-1: the
\* process has not ended)
BridgeExit ==
  CASE main_pc = "failed" -> 1
    [] main_pc = "exited" -> 0
    [] OTHER -> -1

\* run(), lines 167-169: KeyboardInterrupt in the sleep loop
MainInterrupt ==
  /\ prog = "bridge"
  /\ main_pc = "sleep"
  /\ running' = FALSE
  /\ main_pc' = "close_serial"
  /\ UNCHANGED <<cvars, lvars, dvars, fvars, pvars, sock, serial, buttons, udp_pc,
                 upending, serialOut, uWriteFailed, ser_pc, gvars>>

\* run(), lines 171-172: if self.serial and self.serial.is_open: close()
MainCloseSerial ==
  /\ prog = "bridge"
  /\ main_pc = "close_serial"
  /\ serial' = IF serial = "open" THEN "closed" ELSE serial
  /\ main_pc' = "close_sock"
  /\ UNCHANGED <<cvars, lvars, dvars, fvars, pvars, sock, running, buttons, udp_pc,
                 upending, serialOut, uWriteFailed, ser_pc, gvars>>

\* run(), lines 173-174: if self.sock: self.sock.close()
MainCloseSock ==
  /\ prog = "bridge"
  /\ main_pc = "close_sock"
  /\ sock' = IF sock = "open" THEN "closed" ELSE sock
  /\ main_pc' = "exited"
  /\ UNCHANGED <<cvars, lvars, dvars, fvars, pvars, serial, running, buttons, udp_pc,
                 upending, serialOut, uWriteFailed, ser_pc, gvars>>

(***************************************************************************)
(* _udp_reader                                                             *)
(***************************************************************************)
\* variant of UdpLoopCond with a slip: while True
UdpLoopCondAlways == TRUE

\* line 76: while self.running
UdpLoopCond == running

\* lines 79-81: except Exception around recvfrom: print, break
UdpOnRecvError == "done"

\* where _udp_reader is once on_packet has returned and rest are the
\* packets still to be passed to it: the framer's loop goes on, and after it
\* the while loop of _udp_reader
UdpAfterPacket(rest) == IF rest = <<>> THEN "top" ELSE "cb"

\* variant of UdpOnWriteError with a slip: the exception ends the loop
UdpOnWriteErrorBreak(rest) == "done"

\* lines 71-72: except Exception around self.serial.write in on_packet:
\* print, and on_packet returns
UdpOnWriteError(rest) == UdpAfterPacket(rest)

\* line 76: the loop condition
UdpTop ==
  /\ prog = "bridge"
  /\ udp_pc = "top"
  /\ udp_pc' = IF UdpLoopCond THEN "recv" ELSE "done"
  /\ UNCHANGED <<cvars, lvars, dvars, fvars, pvars, sock, serial, running, buttons,
                 main_pc, upending, serialOut, uWriteFailed, ser_pc, gvars>>

\* lines 78, 82-88: recvfrom returns a datagram; an empty one is skipped,
\* any other is fed to the framer
UdpRecv(data) ==
  /\ prog = "bridge"
  /\ udp_pc = "recv"
  /\ sock = "open"
  /\ Len(finput) + Len(data) <= MaxUdpBytes
  /\ IF data = <<>>
     THEN /\ udp_pc' = "top"
          /\ UNCHANGED <<fvars, upending>>
     ELSE LET r == Feed(fbuf, data)
          IN  /\ fbuf' = r.buf
              /\ finput' = finput \o data
              /\ flast' = data
              /\ upending' = r.out
              /\ udp_pc' = UdpAfterPacket(r.out)
              /\ UNCHANGED <<fframes, fraised, ferror>>
  /\ UNCHANGED <<cvars, lvars, dvars, pvars, sock, serial, running, buttons, main_pc,
                 serialOut, uWriteFailed, ser_pc, gvars>>

\* lines 78-81: recvfrom raises although the socket is open (a transient
\* network error)
UdpRecvError ==
  /\ prog = "bridge"
  /\ udp_pc = "recv"
  /\ sock = "open"
  /\ udp_pc' = UdpOnRecvError
  /\ UNCHANGED <<cvars, lvars, dvars, fvars, pvars, sock, serial, running, buttons,
                 main_pc, upending, serialOut, uWriteFailed, ser_pc, gvars>>

\* lines 78-81: recvfrom raises because run() has closed the socket
UdpRecvClosed ==
  /\ prog = "bridge"
  /\ udp_pc = "recv"
  /\ sock = "closed"
  /\ udp_pc' = UdpOnRecvError
  /\ UNCHANGED <<cvars, lvars, dvars, fvars, pvars, sock, serial, running, buttons,
                 main_pc, upending, serialOut, uWriteFailed, ser_pc, gvars>>

\* dcsb_parser.py line 35 and on_packet lines 67-70: the framer passes its
\* next packet to on_packet, which enters self.serial.write if self.serial
UdpCallback ==
  /\ prog = "bridge"
  /\ udp_pc = "cb"
  /\ fframes' = Append(fframes, Head(upending))
  /\ fraised' = Append(fraised, FALSE)
  /\ IF SerialSet
     THEN /\ udp_pc' = "write"
          /\ UNCHANGED upending
     ELSE /\ upending' = Tail(upending)
          /\ udp_pc' = UdpAfterPacket(Tail(upending))
  /\ UNCHANGED <<cvars, lvars, dvars, pvars, fbuf, finput, flast, ferror, sock, serial, running,
                 buttons, main_pc, serialOut, uWriteFailed, ser_pc, gvars>>

\* line 70: self.serial.write(packet) returns
UdpWriteOk ==
  /\ prog = "bridge"
  /\ udp_pc = "write"
  /\ serial = "open"
  /\ serialOut' = Append(serialOut, Head(upending))
  /\ upending' = Tail(upending)
  /\ udp_pc' = UdpAfterPacket(Tail(upending))
  /\ UNCHANGED <<cvars, lvars, dvars, fvars, pvars, sock, serial, running, buttons,
                 main_pc, uWriteFailed, ser_pc, gvars>>

\* lines 70-72: self.serial.write(packet) raises (the port is closed, or
\* the device fails)
UdpWriteFails ==
  /\ prog = "bridge"
  /\ udp_pc = "write"
  /\ uWriteFailed' = TRUE
  /\ upending' = Tail(upending)
  /\ udp_pc' = UdpOnWriteError(Tail(upending))
  /\ UNCHANGED <<cvars, lvars, dvars, fvars, pvars, sock, serial, running, buttons,
                 main_pc, serialOut, ser_pc, gvars>>

(***************************************************************************)
(* _serial_reader                                                          *)
(***************************************************************************)
\* lines 94-96: except Exception around readline: print, break
SerOnReadError == "done"

\* line 91: while self.running and self.serial
SerTop ==
  /\ prog = "bridge"
  /\ ser_pc = "top"
  /\ ser_pc' = IF running /\ SerialSet THEN "read" ELSE "done"
  /\ UNCHANGED <<cvars, lvars, dvars, fvars, pvars, sock, serial, running, buttons,
                 main_pc, udp_pc, upending, serialOut, uWriteFailed, gvars>>

\* lines 93, 97-100: readline returns a line (got) or, after its 1 s
\* timeout, nothing; nothing is followed by sleep(0.01) and continue
SerRead(got) ==
  /\ prog = "bridge"
  /\ ser_pc = "read"
  /\ serial = "open"
  /\ ser_pc' = IF got THEN "send" ELSE "top"
  /\ UNCHANGED <<cvars, lvars, dvars, fvars, pvars, sock, serial, running, buttons,
                 main_pc, udp_pc, upending, serialOut, uWriteFailed, gvars>>

\* lines 93-96: readline raises although the port is open (a transient
\* device error)
SerReadError ==
  /\ prog = "bridge"
  /\ ser_pc = "read"
  /\ serial = "open"
  /\ ser_pc' = SerOnReadError
  /\ UNCHANGED <<cvars, lvars, dvars, fvars, pvars, sock, serial, running, buttons,
                 main_pc, udp_pc, upending, serialOut, uWriteFailed, gvars>>

\* lines 93-96: readline raises because run() has closed the port
SerReadClosed ==
  /\ prog = "bridge"
  /\ ser_pc = "read"
  /\ serial = "closed"
  /\ ser_pc' = SerOnReadError
  /\ UNCHANGED <<cvars, lvars, dvars, fvars, pvars, sock, serial, running, buttons,
                 main_pc, udp_pc, upending, serialOut, uWriteFailed, gvars>>

\* lines 102-105: self.sock.sendto returns, or raises and is logged
SerSend ==
  /\ prog = "bridge"
  /\ ser_pc = "send"
  /\ ser_pc' = "top"
  /\ UNCHANGED <<cvars, lvars, dvars, fvars, pvars, sock, serial, running, buttons,
                 main_pc, udp_pc, upending, serialOut, uWriteFailed, gvars>>

(***************************************************************************)
(* send_command, called from a Button callback                             *)
(***************************************************************************)
\* the commands of the mapping file's on_press and on_release entries: one
\* without and one with a line break at its end
MappingCommands == {<<OtherByte>>, <<OtherByte, Newline>>}

\* lines 117-136: a button callback calls send_command(cmd): b is the
\* encoded cmd; with self.serial set, the call takes the serial branch and
\* appends "\n" to b unless cmd ends with it
GpioEvent(cmd) ==
  /\ prog = "bridge"
  /\ buttons
  /\ main_pc # "start"
  /\ gpio_pc = "idle"
  /\ gpio_pc' = IF SerialSet THEN "write" ELSE "sendto"
  /\ gb' = IF SerialSet /\ ~EndsWithNewline(cmd)
           THEN Encode(cmd) \o <<Newline>>
           ELSE Encode(cmd)
  /\ gfailed' = FALSE
  /\ UNCHANGED <<cvars, lvars, dvars, fvars, pvars, sock, serial, running, buttons,
                 main_pc, udp_pc, upending, serialOut, uWriteFailed, ser_pc>>

\* variant of GpioAfterWrite with a slip: no return after the serial write
GpioAfterWriteNoReturn == "sendto"

\* line 139: return
GpioAfterWrite == "idle"

\* lines 137-139: self.serial.write(b) returns; send_command returns
GpioWriteOk ==
  /\ prog = "bridge"
  /\ gpio_pc = "write"
  /\ serial = "open"
  /\ gpio_pc' = GpioAfterWrite
  /\ gb' = IF GpioAfterWrite = "idle" THEN <<>> ELSE gb
  /\ UNCHANGED <<cvars, lvars, dvars, fvars, pvars, sock, serial, running, buttons,
                 main_pc, udp_pc, upending, serialOut, uWriteFailed, ser_pc,
                 gfailed>>

\* lines 137, 140-141: self.serial.write(b) raises; send_command falls
\* through to the socket with the b of the serial branch
GpioWriteFails ==
  /\ prog = "bridge"
  /\ gpio_pc = "write"
  /\ gpio_pc' = "sendto"
  /\ gfailed' = TRUE
  /\ UNCHANGED <<cvars, lvars, dvars, fvars, pvars, sock, serial, running, buttons,
                 main_pc, udp_pc, upending, serialOut, uWriteFailed, ser_pc,
                 gb>>

\* lines 142-146: self.sock.sendto(b, ...) returns, or raises and is
\* logged; send_command returns
GpioSend ==
  /\ prog = "bridge"
  /\ gpio_pc = "sendto"
  /\ gpio_pc' = "idle"
  /\ gb' = <<>>
  /\ gfailed' = FALSE
  /\ UNCHANGED <<cvars, lvars, dvars, fvars, pvars, sock, serial, running, buttons,
                 main_pc, udp_pc, upending, serialOut, uWriteFailed, ser_pc>>

(***************************************************************************)
(* multicast_to_pty.py, main                                               *)
(***************************************************************************)
\* the return codes of the setup failures: usage 2, bind 3, join 4
PtySetupFailures == {2, 3, 4}

\* lines 93-98: except around os.write: sleep(0.1), and the loop goes on
PtyOnWriteError == "sleep"

\* lines 19-84: the arguments are there, the PTY is opened, the socket is
\* bound and joined
PtySetup ==
  /\ prog = "pty"
  /\ pty_pc = "start"
  /\ pty_pc' = "recv"
  /\ UNCHANGED <<cvars, lvars, dvars, fvars, bvars, pty_rc, ptyIn, ptyOut>>

\* lines 19-21, 42-46, 48-54: no arguments, bind fails or the join fails:
\* main returns rc
PtySetupFails(rc) ==
  /\ prog = "pty"
  /\ pty_pc = "start"
  /\ pty_pc' = "returned"
  /\ pty_rc' = rc
  /\ UNCHANGED <<cvars, lvars, dvars, fvars, bvars, ptyIn, ptyOut>>

\* lines 88-92: recvfrom returns a datagram; an empty one is skipped, any
\* other is handed to os.write
PtyRecv(empty) ==
  /\ prog = "pty"
  /\ pty_pc = "recv"
  /\ IF empty
     THEN UNCHANGED <<pty_pc, ptyIn>>
     ELSE /\ ptyIn < MaxPtyDatagrams
          /\ ptyIn' = ptyIn + 1
          /\ pty_pc' = "write"
  /\ UNCHANGED <<cvars, lvars, dvars, fvars, bvars, pty_rc, ptyOut>>

\* line 88: recvfrom raises; nothing but KeyboardInterrupt is caught around
\* the loop, so the exception leaves main through the finally block
PtyRecvError ==
  /\ prog = "pty"
  /\ pty_pc = "recv"
  /\ pty_pc' = "crashed"
  /\ UNCHANGED <<cvars, lvars, dvars, fvars, bvars, pty_rc, ptyIn, ptyOut>>

\* line 92: os.write(master_fd, data) returns
PtyWriteOk ==
  /\ prog = "pty"
  /\ pty_pc = "write"
  /\ ptyOut' = ptyOut + 1
  /\ pty_pc' = "recv"
  /\ UNCHANGED <<cvars, lvars, dvars, fvars, bvars, pty_rc, ptyIn>>

\* lines 93-98: os.write raises BrokenPipeError or another Exception
PtyWriteFails ==
  /\ prog = "pty"
  /\ pty_pc = "write"
  /\ pty_pc' = PtyOnWriteError
  /\ UNCHANGED <<cvars, lvars, dvars, fvars, bvars, pty_rc, ptyIn, ptyOut>>

\* lines 95, 98: time.sleep(0.1) returns
PtySleepDone ==
  /\ prog = "pty"
  /\ pty_pc = "sleep"
  /\ pty_pc' = "recv"
  /\ UNCHANGED <<cvars, lvars, dvars, fvars, bvars, pty_rc, ptyIn, ptyOut>>

\* lines 99-115: KeyboardInterrupt in the loop (in recvfrom, os.write or
\* sleep): the handles are closed and main returns 0
PtyInterrupt ==
  /\ prog = "pty"
  /\ pty_pc \in {"recv", "write", "sleep"}
  /\ pty_pc' = "returned"
  /\ pty_rc' = 0
  /\ UNCHANGED <<cvars, lvars, dvars, fvars, bvars, ptyIn, ptyOut>>

(***************************************************************************)
(* GPIOBridge (gpio_client.py): the LEDs of the outputs.                   *)
(***************************************************************************)
\* the match strings of the outputs: the letter, and the letter twice
Matches == {<<OtherByte>>, <<OtherByte, OtherByte>>}

\* lines 47-51: the outputs of a mapping file
OutputConfigs ==
  UNION {[1..n -> [match : Matches, active_on : BOOLEAN]] : n \in 0..MaxOutputs}

\* what self.serial.readline() returns: some bytes, with or without the
\* line break after them (timeout=1)
SerialLines ==
  {b \o t : b \in UNION {[1..n -> {OtherByte, Space}] : n \in 0..MaxLineBody},
            t \in {<<>>, <<Newline>>}}

\* line 76: str.strip() removes the blanks and line breaks at both ends
RECURSIVE StripWhite(_)
StripWhite(s) ==
  IF s = <<>> THEN <<>>
  ELSE IF Head(s) \in {Space, Newline} THEN StripWhite(Tail(s))
  ELSE IF s[Len(s)] \in {Space, Newline}
       THEN StripWhite(SubSeq(s, 1, Len(s) - 1))
  ELSE s

\* line 76: line.decode("utf-8", errors="ignore").strip()
LineText(line) == StripWhite(Decode(line))

\* line 84: match in text
InText(match, text) ==
  \E o \in 0..(Len(text) - Len(match)) :
    SubSeq(text, o + 1, o + Len(match)) = match

\* line 50: self.led_map[match] = ...: led_map has one entry per match
\* string, that of the last output with it; output i is in led_map if no
\* later output has its match string
InLedMap(outs, i) == \A j \in (i + 1)..Len(outs) : outs[j].match # outs[i].match

\* lines 84-91: what the loop does to the LED of an entry of led_map
Driven(level, active_on, matched) ==
  IF matched
  THEN (IF active_on THEN "on" ELSE "off")
  ELSE (IF active_on THEN "off" ELSE level)

\* lines 83-91: the LEDs after the loop over led_map for text
LedsAfter(outs, leds, text) ==
  [i \in 1..Len(outs) |->
     IF InLedMap(outs, i)
     THEN Driven(leds[i], outs[i].active_on, InText(outs[i].match, text))
     ELSE leds[i]]

\* lines 94-97: run() opens the serial port and starts the reader thread
GcRun ==
  /\ prog = "gpio_client"
  /\ gc_pc = "start"
  /\ gc_pc' = "sleep"
  /\ gc_rd' = "read"
  /\ UNCHANGED <<cvars, dvars, fvars, bvars, pvars, gc_outputs, gc_text,
                 gc_leds>>

\* lines 68, 72-81: readline returns line; an empty line and a line with an
\* empty text are passed over, any other text goes to the loop over led_map
GcRead(line) ==
  /\ prog = "gpio_client"
  /\ gc_rd = "read"
  /\ gc_pc = "sleep"
  /\ IF line = <<>> \/ LineText(line) = <<>>
     THEN UNCHANGED <<gc_rd, gc_text>>
     ELSE gc_rd' = "leds" /\ gc_text' = LineText(line)
  /\ UNCHANGED <<cvars, dvars, fvars, bvars, pvars, gc_outputs, gc_pc, gc_leds>>

\* lines 68-71: readline raises (the port has failed, or run() has closed
\* it); the reader ends
GcReadError ==
  /\ prog = "gpio_client"
  /\ gc_rd = "read"
  /\ gc_rd' = "done"
  /\ UNCHANGED <<cvars, dvars, fvars, bvars, pvars, gc_outputs, gc_pc, gc_text,
                 gc_leds>>

\* lines 83-91: the loop over led_map for the text read
GcDriveLeds ==
  /\ prog = "gpio_client"
  /\ gc_rd = "leds"
  /\ gc_leds' = LedsAfter(gc_outputs, gc_leds, gc_text)
  /\ gc_rd' = "read"
  /\ UNCHANGED <<cvars, dvars, fvars, bvars, pvars, gc_outputs, gc_pc, gc_text>>

\* lines 102-108: KeyboardInterrupt; run() closes the serial port and
\* switches the LED of every output off
GcInterrupt ==
  /\ prog = "gpio_client"
  /\ gc_pc = "sleep"
  /\ gc_pc' = "exited"
  /\ gc_leds' = [i \in 1..Len(gc_outputs) |-> "off"]
  /\ UNCHANGED <<cvars, dvars, fvars, bvars, pvars, gc_outputs, gc_rd, gc_text>>

(***************************************************************************)
(* The bridge programs.                                                    *)
(***************************************************************************)
Init ==
  /\ prog \in {"bridge", "pty", "gpio_client"}
  /\ cfgSerial \in (IF prog = "bridge" THEN BOOLEAN ELSE {FALSE})
  /\ cfgMapping \in (IF prog = "bridge" THEN BOOLEAN ELSE {FALSE})
  /\ FreshFramer
  /\ FreshBridge
  /\ FreshPty
  /\ FreshDcs
  /\ \E outs \in (IF prog = "gpio_client" THEN OutputConfigs ELSE {<<>>}) :
       FreshGpioBridge(outs)

MainStep ==
  \/ Run
  \/ \E step \in SetupSteps : RunSetupFails(step)
  \/ MainInterrupt
  \/ MainCloseSerial
  \/ MainCloseSock

UdpStep ==
  \/ UdpTop
  \/ \E data \in Datagrams : UdpRecv(data)
  \/ UdpRecvError
  \/ UdpRecvClosed
  \/ UdpCallback
  \/ UdpWriteOk
  \/ UdpWriteFails

SerStep ==
  \/ SerTop
  \/ \E got \in BOOLEAN : SerRead(got)
  \/ SerReadError
  \/ SerReadClosed
  \/ SerSend

GpioStep ==
  \/ \E cmd \in MappingCommands : GpioEvent(cmd)
  \/ GpioWriteOk
  \/ GpioWriteFails
  \/ GpioSend

PtyStep ==
  \/ PtySetup
  \/ \E rc \in PtySetupFailures : PtySetupFails(rc)
  \/ \E empty \in BOOLEAN : PtyRecv(empty)
  \/ PtyRecvError
  \/ PtyWriteOk
  \/ PtyWriteFails
  \/ PtySleepDone
  \/ PtyInterrupt

GcStep ==
  \/ GcRun
  \/ \E line \in SerialLines : GcRead(line)
  \/ GcReadError
  \/ GcDriveLeds
  \/ GcInterrupt

Next == MainStep \/ UdpStep \/ SerStep \/ GpioStep \/ PtyStep \/ GcStep

Spec == Init /\ [][Next]_vars

\* Scheduling: every thread that can take a step of its own eventually
\* takes it (the interpreter switches threads; a write or sendto returns or
\* raises; the finally block of run() runs to its end), and a recvfrom or
\* readline on a handle that run() has closed raises.  Nothing is assumed
\* about the arrival of datagrams, lines, button events, interrupts or
\* transient errors.
Fairness ==
  /\ WF_vars(MainCloseSerial)
  /\ WF_vars(MainCloseSock)
  /\ WF_vars(UdpTop)
  /\ WF_vars(UdpRecvClosed)
  /\ WF_vars(UdpCallback)
  /\ WF_vars(UdpWriteOk \/ UdpWriteFails)
  /\ WF_vars(SerTop)
  /\ WF_vars(SerReadClosed)
  /\ WF_vars(SerSend)

FairSpec == Spec /\ Fairness

(***************************************************************************)
(* A DcsBios object (dcsbios.py) and its callers.                          *)
(***************************************************************************)
\* the patterns handlers are registered with: the letter, and the letter
\* twice
Patterns == {<<OtherByte>>, <<OtherByte, OtherByte>>}

DcsInit ==
  /\ prog \in {"parser", "format", "sched"}
  /\ cfgSerial = FALSE
  /\ cfgMapping = FALSE
  /\ FreshFramer
  /\ FreshBridge
  /\ FreshPty
  /\ FreshDcs
  /\ FreshGpioBridge(<<>>)

\* register_handler(pattern, callback); the callback is known by its place
\* in the list
RegisterHandler(pat) ==
  /\ prog = "parser"
  /\ Len(handlers) < MaxHandlers
  /\ handlers' = Append(handlers, pat)
  /\ UNCHANGED <<cvars, lvars, fvars, bvars, pvars, fmvars, scvars, last_messages, pdata,
                 messages, plog, perror, phistory, pfed>>

\* the handlers parse_packet(data) calls when none of them raises
Called(data) ==
  LET r == ParsePacketResult(data, handlers, {}, last_messages, Len(phistory))
  IN  {r.log[i].handler : i \in 1..Len(r.log)}

\* one call parse_packet(data); the handlers in faulty raise when called
ParsePacket(data) ==
  /\ prog = "parser"
  /\ pfed + Len(data) <= MaxParseBytes
  /\ \E faulty \in SUBSET Called(data) :
       LET r == ParsePacketResult(data, handlers, faulty, last_messages,
                                  Len(phistory))
       IN  /\ last_messages' = r.cache
           /\ messages' = (IF r.error THEN <<>> ELSE r.messages)
           /\ plog' = r.log
           /\ perror' = r.error
           /\ phistory' = phistory \o r.messages
  /\ pdata' = data
  /\ pfed' = pfed + Len(data)
  /\ UNCHANGED <<cvars, lvars, fvars, bvars, pvars, fmvars, scvars, handlers>>

\* one call format_command(cmd)
FormatCall(cmd) ==
  /\ prog = "format"
  /\ fmt_cmd' = cmd
  /\ fmt_out' = FormatCommand(cmd)
  /\ UNCHANGED <<cvars, lvars, fvars, bvars, pvars, psvars, scvars>>

\* lines 93-115: schedule_periodic(command, interval, send_func) makes the
\* stop_event, starts the worker thread and returns cancel
SchedulePeriodic(cmd) ==
  /\ prog = "sched"
  /\ sch_pc = "none"
  /\ sch_pc' = "check"
  /\ sch_cmd' = cmd
  /\ UNCHANGED <<cvars, lvars, fvars, bvars, pvars, psvars, fmvars, stop_event,
                 sch_sent, elapsed, cancel_at, cancels,
                 at_cancel, scheduler_stop>>

\* variant of WorkerLoopCond with a slip: the loop does not look at the
\* event
WorkerLoopCondAlways == TRUE

\* line 101: while not stop_event.is_set()
WorkerLoopCond == ~stop_event

\* line 101: the worker tests its loop condition
WorkerCheck ==
  /\ prog = "sched"
  /\ sch_pc = "check"
  /\ sch_pc' = IF WorkerLoopCond THEN "send" ELSE "done"
  /\ UNCHANGED <<cvars, lvars, fvars, bvars, pvars, psvars, fmvars, sch_cmd,
                 stop_event, sch_sent, elapsed, cancel_at, cancels,
                 at_cancel, scheduler_stop>>

\* variant of WorkerAfterRaise with a slip: no try around send_func, the
\* exception ends the worker thread
WorkerAfterRaiseEnds == "done"

\* lines 104-106: except Exception: pass; the worker goes on to the wait
WorkerAfterRaise == "wait"

\* lines 102-105: send_func(self.format_command(command)) returns
\* (ok = TRUE), or raises and the exception is passed over (ok = FALSE)
WorkerSend(ok) ==
  /\ prog = "sched"
  /\ sch_pc = "send"
  /\ Len(sch_sent) < MaxSends
  /\ sch_sent' = Append(sch_sent, [payload |-> FormatCommand(sch_cmd),
                                   ok |-> ok])
  /\ sch_pc' = IF ok THEN "wait" ELSE WorkerAfterRaise
  /\ UNCHANGED <<cvars, lvars, fvars, bvars, pvars, psvars, fmvars, sch_cmd,
                 stop_event, elapsed, cancel_at, cancels,
                 at_cancel, scheduler_stop>>

\* variant of WaitInterrupted with a slip: the wait is a sleep that the
\* event does not end
WaitInterruptedNever == FALSE

\* line 106: stop_event.wait(interval) returns as soon as the event is set
WaitInterrupted == stop_event

\* line 106: stop_event.wait(interval) returns because the event is set
WorkerWoken ==
  /\ prog = "sched"
  /\ sch_pc = "wait"
  /\ WaitInterrupted
  /\ sch_pc' = "check"
  /\ UNCHANGED <<cvars, lvars, fvars, bvars, pvars, psvars, fmvars, sch_cmd,
                 stop_event, sch_sent, elapsed, cancel_at, cancels,
                 at_cancel, scheduler_stop>>

\* line 106: stop_event.wait(interval) returns because interval has
\* elapsed; the model follows the worker through MaxSends - 1 intervals
WorkerTimeout ==
  /\ prog = "sched"
  /\ sch_pc = "wait"
  /\ elapsed + 1 < MaxSends
  /\ sch_pc' = "check"
  /\ elapsed' = elapsed + 1
  /\ UNCHANGED <<cvars, lvars, fvars, bvars, pvars, psvars, fmvars, sch_cmd,
                 stop_event, sch_sent, cancel_at, cancels,
                 at_cancel, scheduler_stop>>

\* lines 112-113: the caller calls the cancel() that schedule_periodic
\* returned
Cancel ==
  /\ prog = "sched"
  /\ sch_pc # "none"
  /\ cancels < MaxCancels
  /\ cancels' = cancels + 1
  /\ stop_event' = TRUE
  /\ cancel_at' = IF stop_event THEN cancel_at ELSE elapsed
  /\ at_cancel' = IF stop_event THEN at_cancel
                  ELSE [pc |-> sch_pc, sent |-> Len(sch_sent)]
  /\ UNCHANGED <<cvars, lvars, fvars, bvars, pvars, psvars, fmvars, sch_pc, sch_cmd,
                 sch_sent, elapsed, scheduler_stop>>

\* lines 117-118: stop_all_schedulers() sets self._scheduler_stop, the
\* event made at line 39; no stop_event of a worker is touched
StopAllSchedulers ==
  /\ prog = "sched"
  /\ scheduler_stop' = TRUE
  /\ UNCHANGED <<cvars, lvars, fvars, bvars, pvars, psvars, fmvars, sch_pc, sch_cmd,
                 stop_event, sch_sent, elapsed, cancel_at, cancels, at_cancel>>

ParserStep ==
  \/ \E pat \in Patterns : RegisterHandler(pat)
  \/ \E data \in CharStrings(0, MaxParseBytes - pfed) : ParsePacket(data)

FormatStep == \E cmd \in Commands : FormatCall(cmd)

SchedStep ==
  \/ \E cmd \in {c \in Commands : Len(c) <= MaxSchedCmd} :
        SchedulePeriodic(cmd)
  \/ WorkerCheck
  \/ \E ok \in BOOLEAN : WorkerSend(ok)
  \/ WorkerWoken
  \/ WorkerTimeout
  \/ Cancel
  \/ StopAllSchedulers

DcsNext == ParserStep \/ FormatStep \/ SchedStep

DcsSpec == DcsInit /\ [][DcsNext]_vars

\* The worker thread is scheduled, and send_func returns or raises. No
\* wait has to time out and no caller has to call anything.
DcsFairness ==
  /\ WF_vars(WorkerCheck)
  /\ WF_vars(\E ok \in BOOLEAN : WorkerSend(ok))
  /\ WF_vars(WorkerWoken)

DcsFairSpec == DcsSpec /\ DcsFairness

(***************************************************************************)
(* Vocabulary of the properties: where the marker occurs in a byte string, *)
(* stated byte by byte.                                                    *)
(***************************************************************************)
\* the marker occurs in s at 0-based offset i
OccursAt(s, i) == /\ i >= 0
                  /\ i + 4 <= Len(s)
                  /\ \A k \in 1..4 : s[i + k] = SyncByte

\* every offset at which the marker occurs in s (overlapping ones too)
Occurrences(s) == {i \in 0..(Len(s) - 4) : OccursAt(s, i)}

\* the multiset of the elements of a sequence
BagOfSeq(s) ==
  [x \in {s[i] : i \in DOMAIN s} |-> Cardinality({i \in DOMAIN s : s[i] = x})]

\* the last n bytes of s (all of s when it is shorter)
LastBytes(s, n) == IF Len(s) > n THEN SubSeq(s, Len(s) - n + 1, Len(s)) ELSE s

(***************************************************************************)
(* Framer properties (FramerSpec).                                         *)
(***************************************************************************)

\* C1: chunk-size independence. The multiset of frames emitted by the feed
\* calls made so far, whatever the chunking, is the multiset a fresh framer
\* emits when the concatenated input is fed to it in one call.
C1_ChunkIndependence ==
  BagOfSeq(fframes) = BagOfSeq(Feed(<<>>, finput).out)

\* C1 witness: a frame has been emitted although the marker that ends it
\* arrived split over feed calls (the latest call carried fewer than 4 bytes
\* and completed the marker the buffer now holds).
C1_Witness ==
  /\ fframes # <<>>
  /\ fbuf = HEADER
  /\ Len(flast) \in 1..3
  /\ flast # finput

\* marker + p + marker fed in one call to a fresh framer, p creating no
\* further occurrence of the marker
C3_Scenario(p) ==
  /\ finput = HEADER \o p \o HEADER
  /\ flast = finput
  /\ Occurrences(finput) = {0, 4 + Len(p)}

\* C3 (as amended): feeding marker + P + marker in one call to a fresh
\* framer invokes on_packet exactly once, with the bytes marker + P (the
\* leading marker is part of the frame), and leaves exactly the 4 bytes of
\* the second marker in the buffer.
C3_FrameKeepsLeadingMarker ==
  \A p \in ByteStrings(0, MaxPayload) :
    C3_Scenario(p) => /\ fframes = <<HEADER \o p>>
                      /\ fbuf = HEADER

\* C3 witness: the scenario with a 3-byte payload has been fed and framed.
C3_Witness ==
  /\ C3_Scenario(<<OtherByte, SyncByte, OtherByte>>)
  /\ Len(fframes) = 1

\* C3 (as claimed): the emitted frame is P alone, the marker excluded.
C3_FrameExcludesMarker ==
  \A p \in ByteStrings(0, MaxPayload) :
    C3_Scenario(p) => /\ fframes = <<p>>
                      /\ fbuf = HEADER

\* the pairs <<s, e>> such that the marker occurs in the input exactly
\* twice, at s and at e, without overlap (at most one such pair)
MarkerPairs ==
  LET occ == Occurrences(finput)
  IN  {pr \in occ \X occ : occ = {pr[1], pr[2]} /\ pr[1] + 4 <= pr[2]}

\* C4 (as amended): while the input fed so far holds exactly one marker,
\* no frame has been emitted, however much data follows the marker; once a
\* second marker has been fed, exactly one frame has been emitted, and it
\* is the first marker followed by the bytes between the two markers.
C4_OneMarkerNoFrame ==
  /\ Cardinality(Occurrences(finput)) = 1 => fframes = <<>>
  /\ \A pr \in MarkerPairs :
       fframes = <<HEADER \o SubSeq(finput, pr[1] + 4 + 1, pr[2])>>

\* C4 witness: one marker, trailing data, and then the second marker fed
\* in a call of its own; the frame has been emitted.
C4_Witness ==
  /\ \E pr \in MarkerPairs : pr[1] + 4 < pr[2]
  /\ flast = HEADER
  /\ flast # finput
  /\ Len(fframes) = 1

\* C4 (as claimed): the one frame is the bytes between the two markers.
C4_FrameIsBytesBetween ==
  /\ Cardinality(Occurrences(finput)) = 1 => fframes = <<>>
  /\ \A pr \in MarkerPairs :
       fframes = <<SubSeq(finput, pr[1] + 4 + 1, pr[2])>>

\* C5: after every feed call, a buffer that holds no complete marker is at
\* most 3 bytes long and is the last bytes of the input seen so far.
C5_BufferBounded ==
  Occurrences(fbuf) = {} =>
    /\ Len(fbuf) <= 3
    /\ fbuf = LastBytes(finput, 3)

\* C11: a failure of on_packet does not affect framing. Whatever calls of
\* on_packet raise during a feed call, no exception leaves feed, and the
\* packets it passes to on_packet and the buffer it leaves are those of the
\* same call with an on_packet that never raises.
C11_CallbackFailureIsolated ==
  [][ /\ ~ferror'
      /\ fframes' = fframes \o Feed(fbuf, flast').out
      /\ fbuf' = Feed(fbuf, flast').buf
    ]_vars

\* C11 witness: the call of on_packet for the first packet raised, and a
\* second packet has been passed to on_packet all the same.
C11_Witness ==
  /\ prog = "framer"
  /\ Len(fframes) = 2
  /\ fraised[1]
  /\ ~ferror

\* C5 witness: more than 3 marker-free bytes have been fed and the buffer
\* holds the 3-byte start of a marker.
C5_Witness ==
  /\ Len(finput) > 3
  /\ Occurrences(finput) = {}
  /\ fbuf = <<SyncByte, SyncByte, SyncByte>>

(***************************************************************************)
(* Bridge properties (Spec, FairSpec).                                     *)
(***************************************************************************)
\* the least element of a non-empty set of integers
Least(S) == CHOOSE x \in S : \A y \in S : x <= y

\* the frames complete in the stream s, given that a frame starts with the
\* marker at offset p: each runs up to the next occurrence of the marker
\* that does not overlap the marker it starts with
RECURSIVE FramesFrom(_, _)
FramesFrom(s, p) ==
  LET later == {o \in Occurrences(s) : o >= p + 4}
  IN  IF later = {} THEN <<>>
      ELSE <<SubSeq(s, p + 1, Least(later))>> \o FramesFrom(s, Least(later))

\* the frames complete in the stream s
FramesOf(s) ==
  IF Occurrences(s) = {} THEN <<>> ELSE FramesFrom(s, Least(Occurrences(s)))

\* C2: inbound forwarding without loss or duplication. While the bridge
\* has a serial port and no write of on_packet has failed, the packets
\* written to the port, followed by those of the current feed call still to
\* be written, are exactly the frames complete in the concatenation of the
\* datagrams received, in stream order, however the datagrams split them.
C2_NoLossNoDuplication ==
  (prog = "bridge" /\ SerialSet /\ ~uWriteFailed) =>
    serialOut \o upending = FramesOf(finput)

\* C2 witness: a frame whose closing marker was completed by a datagram
\* shorter than the marker has been written to the port, and nothing is
\* left to write.
C2_Witness ==
  /\ prog = "bridge"
  /\ ~uWriteFailed
  /\ serialOut # <<>>
  /\ upending = <<>>
  /\ Len(flast) \in 1..3
  /\ fbuf = HEADER

\* C6 (as claimed): once a write of on_packet to the serial port has
\* failed, the port is no longer active (it has been dropped and closed),
\* and no further write to it is begun.
C6_FailedEndpointDropped ==
  (prog = "bridge" /\ uWriteFailed) =>
    /\ serial # "open"
    /\ udp_pc # "write"

\* C7: a failed write never stops the inbound loop. In the bridge, the
\* step in which a write of on_packet fails leads on to the next packet or
\* to the loop condition, and _udp_reader ends only at its loop condition or
\* in recvfrom; in multicast_to_pty, a failed os.write leads to the sleep
\* and the sleep back to recvfrom, and only an interrupt (return code 0)
\* ends the loop from there.
C7_WriteFailureKeepsLoop ==
  [][ /\ (udp_pc = "write" /\ udp_pc' # "write" /\ serialOut' = serialOut)
           => udp_pc' \in {"cb", "top"}
      /\ (udp_pc # "done" /\ udp_pc' = "done") => udp_pc \in {"top", "recv"}
      /\ (pty_pc = "write" /\ pty_pc' # "write" /\ ptyOut' = ptyOut
                           /\ pty_rc' = pty_rc)
           => pty_pc' = "sleep"
      /\ (pty_pc = "sleep" /\ pty_pc' # "sleep" /\ pty_rc' = pty_rc)
           => pty_pc' = "recv"
    ]_vars

\* C7 witness: a write of on_packet has failed and _udp_reader is back in
\* recvfrom on the open socket, the bridge still running.
C7_Witness ==
  /\ prog = "bridge"
  /\ uWriteFailed
  /\ running
  /\ sock = "open"
  /\ udp_pc = "recv"

\* C8 (as claimed): while the bridge is running, no reader loop has ended:
\* a failed recvfrom or readline is retried.
C8_ReadErrorRetried ==
  (prog = "bridge" /\ running) =>
    /\ udp_pc # "done"
    /\ ser_pc # "done"

\* C9 (as claimed): no two writes to the serial port are in progress at the
\* same time.
C9_WritesSerialized ==
  ~(udp_pc = "write" /\ gpio_pc = "write")

\* run() has cleared the running flag and closed the serial port and the
\* socket
Stopped == prog = "bridge" /\ main_pc = "exited"

\* every reader loop that was started has ended
ReadersDone == udp_pc = "done" /\ ser_pc \in {"off", "done"}

LatestText == Decode(pdata)

\* the last position of the line of t that starts at p (p - 1 if empty)
LineEnd(t, p) ==
  CHOOSE e \in (p - 1)..Len(t) :
    /\ \A q \in p..e : t[q] # Newline
    /\ e = Len(t) \/ t[e + 1] = Newline

\* the positions of t where a line starts that is not empty after trimming
NonBlankStarts(t) ==
  {p \in 1..Len(t) : /\ p = 1 \/ t[p - 1] = Newline
                     /\ \E q \in p..LineEnd(t, p) : t[q] # Space}

\* the line of t that starts at p, without the blanks at its two ends
Trimmed(t, p) ==
  LET inked == {q \in p..LineEnd(t, p) : t[q] # Space}
      a == CHOOSE q \in inked : \A x \in inked : q <= x
      b == CHOOSE q \in inked : \A x \in inked : q >= x
  IN  SubSeq(t, a, b)

\* pat occurs in name, letter by letter from some position on
Occurs(pat, name) ==
  \E o \in 1..Len(name) :
    \A j \in 1..Len(pat) : o + j - 1 <= Len(name) /\ name[o + j - 1] = pat[j]

\* C12: parsing preserves the line count. If the input of a parse_packet
\* call has N lines that are not empty after trimming, the call returns
\* exactly N messages, the i-th of them made from the i-th such line.
C12_LineCountPreserved ==
  prog = "parser" =>
    LET starts == NonBlankStarts(LatestText)
    IN  /\ Len(messages) = Cardinality(starts)
        /\ \A p \in starts :
             messages[Cardinality({q \in starts : q <= p})].raw
               = Trimmed(LatestText, p)

\* C12 witness: an input with more lines than messages: a line that is
\* empty after trimming was passed over and another line gave a message.
C12_Witness ==
  /\ prog = "parser"
  /\ \E p \in 1..Len(LatestText) : LatestText[p] = Newline
  /\ \E p \in 1..Len(LatestText) :
       /\ p = 1 \/ LatestText[p - 1] = Newline
       /\ p \notin NonBlankStarts(LatestText)
  /\ Len(messages) >= 1

\* C13: a message is its trimmed line split on the first colon only. The
\* name has no colon; with a colon in the line, name + ":" + value is the
\* line, so every further colon is in the value; without one, the name is
\* the whole line and the value is empty. No line makes parse_packet raise.
C13_SplitOnFirstColon ==
  prog = "parser" =>
    /\ ~perror
    /\ \A i \in 1..Len(messages) :
         LET m == messages[i]
         IN  /\ \A j \in 1..Len(m.name) : m.name[j] # Colon
             /\ IF \E j \in 1..Len(m.raw) : m.raw[j] = Colon
                THEN m.raw = m.name \o <<Colon>> \o m.value
                ELSE m.name = m.raw /\ m.value = <<>>

\* C13 witness: a message from a line with two colons; the second colon is
\* in its value.
C13_Witness ==
  /\ prog = "parser"
  /\ \E i \in 1..Len(messages) :
       /\ messages[i].name = <<OtherByte>>
       /\ \E j \in 1..Len(messages[i].value) : messages[i].value[j] = Colon

\* the names of the messages parsed so far
SeenNames == {phistory[i].name : i \in 1..Len(phistory)}

\* the latest message parsed with name n
LatestOf(n) ==
  LET at == {i \in 1..Len(phistory) : phistory[i].name = n}
  IN  phistory[CHOOSE i \in at : \A j \in at : i >= j]

\* C14: the last-value cache. After any sequence of parse_packet calls the
\* cache has an entry exactly for the names of the messages parsed so far,
\* and the entry of a name is the latest message parsed with that name.
C14_CacheHoldsLatest ==
  prog = "parser" =>
    /\ DOMAIN last_messages = SeenNames
    /\ \A n \in SeenNames : last_messages[n] = LatestOf(n)

\* C14 witness: two messages with the same name have been parsed, by
\* different calls, and the parser has seen another name as well.
C14_Witness ==
  /\ prog = "parser"
  /\ Len(phistory) = 3
  /\ phistory[1].name = phistory[3].name
  /\ phistory[2].name # phistory[1].name
  /\ Len(messages) = 1

\* the calls in log that passed message m to handler i
CallsIn(log, i, m) ==
  {e \in 1..Len(log) : log[e].handler = i /\ log[e].msg = m}

\* C15: dispatch by search. A parse_packet call calls, for each message it
\* returns, every handler whose pattern occurs somewhere in the message's
\* name exactly once with that message, those handlers in registration
\* order, and no handler whose pattern does not occur in the name.
C15_DispatchBySearch ==
  [][ handlers' = handlers =>
        /\ \A k \in 1..Len(messages') : \A i \in 1..Len(handlers) :
             Cardinality(CallsIn(plog', i, messages'[k]))
               = IF Occurs(handlers[i], messages'[k].name) THEN 1 ELSE 0
        /\ \A e \in 1..Len(plog') :
             \E k \in 1..Len(messages') : plog'[e].msg = messages'[k]
        /\ \A e1, e2 \in 1..Len(plog') :
             (e1 < e2 /\ plog'[e1].msg = plog'[e2].msg)
               => plog'[e1].handler < plog'[e2].handler
    ]_vars

\* C15 witness: a handler was called for a name that is longer than its
\* pattern, and a handler registered before it was not called for that
\* message.
C15_Witness ==
  /\ prog = "parser"
  /\ \E e \in 1..Len(plog) :
       /\ Len(plog[e].msg.name) > Len(handlers[plog[e].handler])
       /\ \E i \in 1..(plog[e].handler - 1) : CallsIn(plog, i, plog[e].msg) = {}

\* the handlers called and the messages passed, call by call
CallsMade(log) == [e \in 1..Len(log) |-> <<log[e].handler, log[e].msg>>]

\* C16: handler failures are isolated. Whatever handlers raise during a
\* parse_packet call, no exception leaves the call, and the list it
\* returns, the cache, and the calls of handlers it makes, for every
\* message of every line, are those of the same call with handlers that do
\* not raise.
C16_HandlerFailureIsolated ==
  [][ handlers' = handlers =>
        LET r == ParsePacketResult(pdata', handlers, {}, last_messages,
                                   Len(phistory))
        IN  /\ ~perror'
            /\ messages' = r.messages
            /\ last_messages' = r.cache
            /\ CallsMade(plog') = CallsMade(r.log)
    ]_vars

\* C16 witness: a handler raised on the message of the first line, and a
\* handler was called for the message of the second line all the same.
C16_Witness ==
  /\ prog = "parser"
  /\ ~perror
  /\ Len(messages) = 2
  /\ \E e1, e2 \in 1..Len(plog) :
       /\ e1 < e2
       /\ plog[e1].raised
       /\ plog[e1].msg = messages[1]
       /\ plog[e2].msg = messages[2]

(***************************************************************************)
(* Formatter properties (DcsSpec).                                         *)
(***************************************************************************)
\* the text a UTF-8 byte string stands for
RECURSIVE TextOf(_)
TextOf(b) ==
  IF b = <<>> THEN <<>>
  ELSE IF Len(b) >= 2 /\ b[1] = Utf8Lead /\ b[2] = Utf8Trail
       THEN <<NonAscii>> \o TextOf(SubSeq(b, 3, Len(b)))
       ELSE <<b[1]>> \o TextOf(Tail(b))

\* C17: formatting is idempotent. format_command returns the encoded
\* command followed by one terminator when the command does not end with
\* one, and the encoded command alone when it does; its output ends with
\* the terminator; and formatting the text of its output gives that output
\* again.
C17_FormatIdempotent ==
  (prog = "format" /\ fmt_out # <<>>) =>
    /\ fmt_out = Encode(fmt_cmd) \o (IF EndsWithNewline(fmt_cmd) THEN <<>>
                                     ELSE <<Newline>>)
    /\ EndsWithNewline(fmt_out)
    /\ FormatCommand(TextOf(fmt_out)) = fmt_out

\* C17 witness: a command without terminator and with a character outside
\* ASCII has been formatted: the output is two bytes longer than the
\* command has characters.
C17_Witness ==
  /\ prog = "format"
  /\ ~EndsWithNewline(fmt_cmd)
  /\ \E i \in 1..Len(fmt_cmd) : fmt_cmd[i] = NonAscii
  /\ Len(fmt_out) = Len(fmt_cmd) + 2

(***************************************************************************)
(* send_command properties (Spec).                                         *)
(***************************************************************************)
\* C18: every outbound command of a local input event is newline
\* terminated on either transport: the bytes send_command passes to the
\* serial write and the bytes it passes to the send on the multicast
\* socket end with the line terminator.
C18_OutboundTerminated ==
  (prog = "bridge" /\ gpio_pc \in {"write", "sendto"}) => EndsWithNewline(gb)

\* C19: serial is preferred, the socket is the fallback. A send_command
\* call is at the serial write only with a serial port set; it is at the
\* send on the multicast socket only if no serial port is set or its serial
\* write has raised, so never after a serial write that succeeded.
C19_SerialPreferred ==
  prog = "bridge" =>
    /\ gpio_pc = "write" => (SerialSet /\ ~gfailed)
    /\ gpio_pc = "sendto" => (~SerialSet \/ gfailed)

\* C19 witness: with a serial port set, the serial write of a send_command
\* call has raised and the call is at the send on the multicast socket.
C19_Witness ==
  /\ prog = "bridge"
  /\ SerialSet
  /\ gfailed
  /\ gpio_pc = "sendto"

(***************************************************************************)
(* Scheduler properties (DcsSpec).                                         *)
(***************************************************************************)
\* C20: cancelling a periodic schedule before its first interval has
\* elapsed, that is while no wait of the worker has timed out, leaves at
\* most one call of send_func in total, in every interleaving of the caller
\* and the worker.
C20_CancelBeforeFirstInterval ==
  (prog = "sched" /\ stop_event /\ cancel_at = 0) => Len(sch_sent) <= 1

\* C20 witness: cancel() was called before any wait had timed out, the
\* worker has made its one call of send_func and has ended.
C20_Witness ==
  /\ prog = "sched"
  /\ stop_event
  /\ cancel_at = 0
  /\ Len(sch_sent) = 1
  /\ sch_pc = "done"

\* C21: cancellation interrupts the wait. Once cancel() has been called the
\* worker terminates, with no wait having to time out; and a call of
\* cancel() after the first one changes nothing of the schedule.
C21_CancelInterruptsWait ==
  /\ (prog = "sched" /\ stop_event) ~> (sch_pc = "done")
  /\ [][ (cancels' = cancels + 1 /\ stop_event) =>
           UNCHANGED <<sch_pc, sch_cmd, stop_event, sch_sent, elapsed,
                       cancel_at>> ]_vars

\* C21 witness: cancel() has been called twice, no wait has ever timed out,
\* and the worker, which had sent and was waiting, has ended.
C21_Witness ==
  /\ prog = "sched"
  /\ cancels = 2
  /\ elapsed = 0
  /\ Len(sch_sent) = 1
  /\ sch_pc = "done"

\* C22: a send failure does not stop later ticks. Whatever calls of
\* send_func raise, a worker whose cancel() has not been called has not
\* ended, and it has called send_func once at its start and once after
\* every interval that has elapsed.
C22_SendFailureKeepsTicking ==
  (prog = "sched" /\ sch_pc # "none" /\ ~stop_event) =>
    /\ sch_pc # "done"
    /\ Len(sch_sent) = elapsed + (IF sch_pc = "wait" THEN 1 ELSE 0)

\* C22 witness: the first call of send_func raised, and the worker, not
\* cancelled, has called send_func again after the interval.
C22_Witness ==
  /\ prog = "sched"
  /\ ~stop_event
  /\ Len(sch_sent) >= 2
  /\ ~sch_sent[1].ok

(***************************************************************************)
(* Startup properties (Spec).                                              *)
(***************************************************************************)
\* C23: a transport setup failure is fatal at startup. If the socket
\* setup, the mapping load or the serial open of the bridge fails, running
\* is never set, no reader thread runs, nothing is received, forwarded or
\* sent, and the process ends with a non-zero status; multicast_to_pty
\* leaves its setup either for its receive loop or by returning a non-zero
\* code, after which it receives and writes nothing.
C23_SetupFailureFatal ==
  /\ [][ (prog = "pty" /\ pty_pc = "start" /\ pty_pc' # "recv") =>
           (pty_pc' = "returned" /\ pty_rc' > 0) ]_vars
  /\ [](prog = "pty" /\ pty_rc > 0 =>
          pty_pc = "returned" /\ ptyIn = 0 /\ ptyOut = 0)
  /\ [](prog = "bridge" /\ main_pc = "failed" =>
          /\ BridgeExit > 0
          /\ ~running
          /\ udp_pc = "off" /\ ser_pc = "off" /\ gpio_pc = "idle"
          /\ finput = <<>> /\ serialOut = <<>>
          /\ serial = "none")

\* C23 witness: the bridge was started with a serial port, its socket was
\* bound and joined, and the serial open failed.
C23_Witness ==
  /\ prog = "bridge"
  /\ cfgSerial
  /\ main_pc = "failed"
  /\ sock = "open"

(***************************************************************************)
(* Order inside parse_packet (DcsSpec).                                    *)
(***************************************************************************)
\* the place of message x in the list the latest parse_packet returned
PlaceOf(x) == CHOOSE k \in 1..Len(messages) : messages[k] = x

\* C24: within parse_packet the cache is updated before dispatch and the
\* lines are processed in order. At every call of a handler for a message
\* the cache maps the message's name to that message, no call for a message
\* of an earlier line comes later, and no message of a later line is in the
\* cache; at return every dispatched message is in the returned list and
\* the cache maps the name of every returned message to the last returned
\* message with that name.
C24_CacheBeforeDispatch ==
  prog = "parser" =>
    /\ \A e \in 1..Len(plog) :
         LET x == plog[e].msg
             c == plog[e].cache
         IN  /\ \E k \in 1..Len(messages) : messages[k] = x
             /\ x.name \in DOMAIN c /\ c[x.name] = x
             /\ \A e2 \in 1..Len(plog) :
                  PlaceOf(plog[e2].msg) < PlaceOf(x) => e2 < e
             /\ \A k \in (PlaceOf(x) + 1)..Len(messages) :
                  \A n \in DOMAIN c : c[n] # messages[k]
    /\ \A k \in 1..Len(messages) :
         LET same == {j \in 1..Len(messages) :
                        messages[j].name = messages[k].name}
         IN  /\ messages[k].name \in DOMAIN last_messages
             /\ last_messages[messages[k].name]
                  = messages[CHOOSE j \in same : \A i \in same : j >= i]

\* C24 witness: one input gave two messages with the same name; the handler
\* called for the first found the first in the cache, and at return the
\* cache holds the second.
C24_Witness ==
  /\ prog = "parser"
  /\ Len(messages) = 2
  /\ messages[1].name = messages[2].name
  /\ \E e \in 1..Len(plog) :
       /\ plog[e].msg = messages[1]
       /\ plog[e].cache[messages[1].name] = messages[1]
  /\ last_messages[messages[1].name] = messages[2]

(***************************************************************************)
(* GPIOBridge properties (Spec).                                           *)
(***************************************************************************)
\* the level the LED of an output is to have for a text: its active level
\* (on with active_on, off without) if the text contains its match string,
\* the other level if not
LevelFor(out, text) ==
  IF InText(out.match, text) = out.active_on THEN "on" ELSE "off"

\* C25: the output LEDs follow match and no-match. When the GPIOBridge has
\* processed a non-empty line, the LED of every output is at its active
\* level if the line contains the output's match string and at its inactive
\* level if not.
C25_LedsFollowMatch ==
  [][ (prog = "gpio_client" /\ gc_rd = "leds" /\ gc_rd' = "read") =>
        \A i \in 1..Len(gc_outputs) :
          gc_leds'[i] = LevelFor(gc_outputs[i], gc_text) ]_vars

(***************************************************************************)
(* Framer buffer properties (FramerSpec).                                  *)
(***************************************************************************)
\* the concatenation of the byte strings of a sequence
RECURSIVE Concat(_)
Concat(ss) == IF ss = <<>> THEN <<>> ELSE Head(ss) \o Concat(Tail(ss))

\* t is the end of s
IsSuffix(t, s) ==
  Len(t) <= Len(s) /\ t = SubSeq(s, Len(s) - Len(t) + 1, Len(s))

\* C26: the framer conserves bytes. Once the input fed so far contains a
\* marker, the frames emitted so far, one after the other, followed by the
\* buffer are the input from its first marker on: nothing after the first
\* marker is dropped and nothing is emitted twice. Before that, nothing is
\* emitted and the buffer is an end of the input.
C26_ByteConservation ==
  prog = "framer" =>
    IF Occurrences(finput) # {}
    THEN Concat(fframes) \o fbuf
           = DropFirst(finput, Least(Occurrences(finput)))
    ELSE fframes = <<>> /\ IsSuffix(fbuf, finput)

\* C26 witness: the input began with bytes that are not a marker, a frame
\* has been emitted, and the buffer holds a marker and a byte after it.
C26_Witness ==
  /\ prog = "framer"
  /\ Occurrences(finput) # {}
  /\ Least(Occurrences(finput)) > 0
  /\ Len(fframes) = 1
  /\ Len(fbuf) > Len(HEADER)

\* C27: no frame that is ready is left behind. After every feed call, a
\* buffer that contains a marker starts with a marker and has no marker at
\* offset 4 or later, and the frames emitted are all the frames complete in
\* the input fed so far.
C27_NoFrameLeftBehind ==
  prog = "framer" =>
    /\ Occurrences(fbuf) # {} =>
         /\ 0 \in Occurrences(fbuf)
         /\ \A o \in Occurrences(fbuf) : o < Len(HEADER)
    /\ fframes = FramesOf(finput)

\* C27 witness: a frame with a payload has been emitted, and the buffer
\* holds five marker bytes, so that the marker occurs in it at offsets 0
\* and 1 and nowhere else.
C27_Witness ==
  /\ prog = "framer"
  /\ Len(fframes) = 1
  /\ Len(fframes[1]) > Len(HEADER)
  /\ Occurrences(fbuf) = {0, 1}

\* C28: once cancel() has been called, the worker begins at most one
\* further send, and it begins that one only if the cancellation came
\* between its test of the loop condition and the send; it never begins a
\* second one, wherever the worker was and however often cancel() is called
C28_AtMostOneSendAfterCancel ==
  (prog = "sched" /\ stop_event) =>
    /\ Len(sch_sent) <= at_cancel.sent + 1
    /\ (Len(sch_sent) = at_cancel.sent + 1 => at_cancel.pc = "send")

\* a schedule that had ticked, was cancelled between the test and the
\* send, made that one send and ended
C28_Witness ==
  /\ prog = "sched"
  /\ stop_event
  /\ at_cancel.pc = "send"
  /\ at_cancel.sent >= 1
  /\ Len(sch_sent) = at_cancel.sent + 1
  /\ sch_pc = "done"

====
